---- MODULE Spec2Model ----
(***************************************************************************)
(* SafeWay / SafeMap: danger scoring, geocoding, per-city graph building   *)
(* and the risk-weighted A* search (src/safemap/core_logic.py), with the   *)
(* query flow of src/main.py.                                              *)
(*                                                                         *)
(* Three stages are modelled, each under its own specification:            *)
(*   ScoreSpec   calculate_danger_scores on a bounded observation set      *)
(*   GeoSpec     geocode_areas followed by build_city_graphs               *)
(*   SearchSpec  a_star_search, called directly or through the query flow  *)
(*               of run_application (FairSearchSpec adds weak fairness)    *)
(* Real numbers are exact rationals (records [n, d] in lowest terms).      *)
(***************************************************************************)
EXTENDS Integers, Sequences, FiniteSets, TLC

VARIABLES
    pc,                 \* position of the program
    data_df,            \* observations: (city, area) -> lighting readings
    processed_data,     \* one row per (city, area) with >= 1 observation
    geo_i,              \* geocode_areas: index of the row being geocoded
    service_log,        \* (city, area) -> responses of the geocoding service
    coordinates,        \* geocode_areas: (city, area) -> coords or None
    geocoded_data,      \* rows left after dropna(subset=['coords'])
    build_i,            \* build_city_graphs: index of the city being built
    city_graphs,        \* city -> [nodes, edges]
    city_coords,        \* city -> (area -> coords)
    city_danger_scores, \* city -> (area -> danger score)
    graph,              \* a_star_search: the graph argument
    coords_map,         \* a_star_search: area -> coords
    danger_scores,      \* a_star_search: area -> danger score
    start_node,
    end_node,
    open_set,           \* the heap: a set of <<f, g, node>> entries
    came_from,
    g_score,
    f_score,
    current,            \* the entry popped last: <<f, g, node>>, or None
    todo,               \* neighbours of the popped node not yet relaxed
    path,               \* the path under reconstruction (end first)
    walk_node,          \* current_node of the reconstruction loop
    result,             \* what the call or the query flow ended with
    pops                \* nodes popped so far, in order

vars == <<pc, data_df, processed_data, geo_i, service_log, coordinates, geocoded_data,
          build_i, city_graphs, city_coords, city_danger_scores,
          graph, coords_map, danger_scores, start_node, end_node, open_set,
          came_from, g_score, f_score, current, todo, path, walk_node,
          result, pops>>

scoreVars == <<data_df, processed_data>>
geoVars == <<geo_i, service_log, coordinates, geocoded_data, build_i, city_graphs,
             city_coords, city_danger_scores>>
searchVars == <<graph, coords_map, danger_scores, start_node, end_node,
                open_set, came_from, g_score, f_score, current, todo, path,
                walk_node, result, pops>>

None == "None"
\* what a call ended with: nothing yet, a returned path, the returned None,
\* the rejection printed by the query flow, or a raised exception
Pending == [kind |-> "pending", path |-> <<>>]
ReturnedPathResult(p) == [kind |-> "path", path |-> p]
ReturnedNone == [kind |-> "None", path |-> <<>>]
Ended(kind) == [kind |-> kind, path |-> <<>>]

----------------------------------------------------------------------------
(* Exact rational arithmetic                                               *)

Abs(x) == IF x < 0 THEN -x ELSE x

RECURSIVE GCD(_, _)
GCD(a, b) == IF b = 0 THEN a ELSE GCD(b, a % b)

Frac(n, d) ==
    LET s == IF d < 0 THEN -1 ELSE 1
        g == GCD(Abs(n), Abs(d))
    IN [n |-> (s * n) \div g, d |-> (s * d) \div g]

FInt(k) == [n |-> k, d |-> 1]
FAdd(a, b) == Frac(a.n * b.d + b.n * a.d, a.d * b.d)
FSub(a, b) == Frac(a.n * b.d - b.n * a.d, a.d * b.d)
FMul(a, b) == Frac(a.n * b.n, a.d * b.d)
FDiv(a, b) == Frac(a.n * b.d, a.d * b.n)
FLess(a, b) == a.n * b.d < b.n * a.d
FLeq(a, b) == a.n * b.d <= b.n * a.d

\* series.max() / series.min() of a non-empty series (a function to rationals)
SeriesMax(series) ==
    CHOOSE m \in {series[k] : k \in DOMAIN series} :
        \A k \in DOMAIN series : FLeq(series[k], m)
SeriesMin(series) ==
    CHOOSE m \in {series[k] : k \in DOMAIN series} :
        \A k \in DOMAIN series : FLeq(m, series[k])

RECURSIVE SeqSum(_)
SeqSum(s) == IF s = <<>> THEN 0 ELSE Head(s) + SeqSum(Tail(s))

----------------------------------------------------------------------------
(* calculate_danger_scores                                                 *)

MaxObs == 2
LightingValues == {1, 2}
Cities == <<"Delhi", "Mumbai">>
AreaNames == <<"A", "B", "C">>

CitySet == {Cities[i] : i \in DOMAIN Cities}
AreaSet == {AreaNames[i] : i \in DOMAIN AreaNames}
\* the areas that may have observations: three in the first city, two in
\* the second
Keys == (CitySet \X AreaSet) \ {<<Cities[2], AreaNames[3]>>}

\* groupby(['city', 'area_name']) yields its groups in sorted key order
KeyOrder ==
    SelectSeq([i \in 1..(Len(Cities) * Len(AreaNames)) |->
                  <<Cities[((i - 1) \div Len(AreaNames)) + 1],
                    AreaNames[((i - 1) % Len(AreaNames)) + 1]>>],
              LAMBDA k : k \in Keys)

\* the lighting readings of one area; size and mean do not depend on the
\* order of the records, so they are listed in non-decreasing order
Readings ==
    {s \in UNION {[1..n -> LightingValues] : n \in 0..MaxObs} :
        \A i \in 1..(Len(s) - 1) : s[i] <= s[i + 1]}

\* normalize(series), core_logic.py:21-24, with a division by the maximum
normalize_divmax(series) ==
    LET mx == SeriesMax(series)
        mn == SeriesMin(series)
    IN IF mx = mn
       THEN [k \in DOMAIN series |-> FInt(0)]
       ELSE [k \in DOMAIN series |-> FDiv(FSub(series[k], mn), mx)]

normalize(series) ==
    LET mx == SeriesMax(series)
        mn == SeriesMin(series)
    IN IF mx = mn
       THEN [k \in DOMAIN series |-> FInt(0)]
       ELSE [k \in DOMAIN series |->
                FDiv(FSub(series[k], mn), FSub(mx, mn))]

\* groupby('city')[column].transform(normalize): normalize within each city
transform_by_city(series) ==
    LET group(c) == {x \in DOMAIN series : x[1] = c}
        normed == [c \in {k[1] : k \in DOMAIN series} |->
                     normalize([j \in group(c) |-> series[j]])]
    IN [k \in DOMAIN series |-> normed[k[1]][k]]

crime_weight == Frac(7, 10)
lighting_weight == Frac(3, 10)

\* core_logic.py:30
Composite(crime_norm, lighting_inverted_norm) ==
    FAdd(FMul(crime_weight, crime_norm),
         FMul(lighting_weight, lighting_inverted_norm))

\* the uptime_ratio mean of core_logic.py:17 is read by no later step and is
\* left out of the rows
calculate_danger_scores(df) ==
    LET rows == {k \in DOMAIN df : Len(df[k]) > 0}
        crime_count == [k \in rows |-> FInt(Len(df[k]))]
        lighting == [k \in rows |-> Frac(SeqSum(df[k]), Len(df[k]))]
        crime_norm == transform_by_city(crime_count)
        lighting_norm == transform_by_city(lighting)
        lighting_inverted_norm ==
            [k \in rows |-> FSub(FInt(1), lighting_norm[k])]
        composite ==
            [k \in rows |-> Composite(crime_norm[k], lighting_inverted_norm[k])]
        final == normalize(composite)
    IN [k \in rows |->
          [crime_count |-> crime_count[k],
           lighting_quality_score |-> lighting[k],
           crime_norm |-> crime_norm[k],
           lighting_inverted_norm |-> lighting_inverted_norm[k],
           danger_score |-> FAdd(FInt(1), FMul(FInt(9), final[k]))]]

Empty == <<>>

ScoreIdle ==
    /\ data_df = Empty
    /\ processed_data = Empty
GeoIdle ==
    /\ geo_i = 0
    /\ service_log = Empty
    /\ coordinates = Empty
    /\ geocoded_data = Empty
    /\ build_i = 0
    /\ city_graphs = Empty
    /\ city_coords = Empty
    /\ city_danger_scores = Empty
SearchIdle ==
    /\ graph = Empty
    /\ coords_map = Empty
    /\ danger_scores = Empty
    /\ start_node = None
    /\ end_node = None
    /\ open_set = {}
    /\ came_from = Empty
    /\ g_score = Empty
    /\ f_score = Empty
    /\ current = None
    /\ todo = {}
    /\ path = <<>>
    /\ walk_node = None
    /\ result = Pending
    /\ pops = <<>>

\* run_application, main.py:25-31: the loaded observations are scored
ScoreInit ==
    /\ pc = "score"
    /\ data_df \in [Keys -> Readings]
    /\ \E k \in Keys : Len(data_df[k]) > 0
    \* the last area has at most one record
    /\ Len(data_df[KeyOrder[Len(KeyOrder)]]) <= 1
    /\ processed_data = Empty
    /\ GeoIdle
    /\ SearchIdle

CalculateDangerScores ==
    /\ pc = "score"
    /\ processed_data' = calculate_danger_scores(data_df)
    /\ pc' = "scored"
    /\ UNCHANGED <<data_df, geoVars, searchVars>>

ScoreNext == CalculateDangerScores

ScoreSpec == ScoreInit /\ [][ScoreNext]_vars

RowsOf(city) == {k \in DOMAIN processed_data : k[1] = city}
ScoredCities == {k[1] : k \in DOMAIN processed_data}
RowComposite(k) ==
    Composite(processed_data[k].crime_norm,
              processed_data[k].lighting_inverted_norm)
DangerOf(city) == [k \in RowsOf(city) |-> processed_data[k].danger_score]

\* C1: after calculate_danger_scores, in every city with two areas of
\* differing composite score the smallest danger_score is 1 and the largest
\* is 10, and the area of a single-area city has danger_score 1.
C1_PerCityRange ==
    pc = "scored" =>
        \A c \in ScoredCities :
            /\ (\E j, k \in RowsOf(c) : RowComposite(j) # RowComposite(k)) =>
                  /\ SeriesMin(DangerOf(c)) = FInt(1)
                  /\ SeriesMax(DangerOf(c)) = FInt(10)
            /\ Cardinality(RowsOf(c)) = 1 =>
                  \A k \in RowsOf(c) : processed_data[k].danger_score = FInt(1)

\* the two per-city normalized fields of a row: the normalized crime_count
\* and the normalized lighting mean (before the inversion of line 27)
NormOf(k, field) ==
    IF field = "crime_count" THEN processed_data[k].crime_norm
    ELSE FSub(FInt(1), processed_data[k].lighting_inverted_norm)
RawOf(k, field) ==
    IF field = "crime_count" THEN processed_data[k].crime_count
    ELSE processed_data[k].lighting_quality_score
NormalizedFields == {"crime_count", "lighting_quality_score"}
Constant(c, field) ==
    \A j, k \in RowsOf(c) : RawOf(j, field) = RawOf(k, field)
IsMin(k, field) == \A j \in RowsOf(k[1]) : FLeq(RawOf(k, field), RawOf(j, field))
IsMax(k, field) == \A j \in RowsOf(k[1]) : FLeq(RawOf(j, field), RawOf(k, field))

\* C8: every per-city normalized value lies in [0,1]; where the field varies
\* in the city its minimum maps to 0 and its maximum to 1; where it is
\* constant in the city every normalized value is 0.
C8_NormalizedRange ==
    pc = "scored" =>
        \A k \in DOMAIN processed_data : \A field \in NormalizedFields :
            /\ NormOf(k, field).d > 0
            /\ FLeq(FInt(0), NormOf(k, field))
            /\ FLeq(NormOf(k, field), FInt(1))
            /\ Constant(k[1], field) => NormOf(k, field) = FInt(0)
            /\ ~Constant(k[1], field) =>
                  /\ IsMin(k, field) => NormOf(k, field) = FInt(0)
                  /\ IsMax(k, field) => NormOf(k, field) = FInt(1)

\* a scored city in which one field is constant and the other varies, and a
\* row whose normalized value is strictly between 0 and 1
C8_Witness ==
    /\ pc = "scored"
    /\ \E c \in ScoredCities :
          /\ Constant(c, "lighting_quality_score")
          /\ ~Constant(c, "crime_count")
    /\ \E k \in DOMAIN processed_data :
          /\ FLess(FInt(0), NormOf(k, "lighting_quality_score"))
          /\ FLess(NormOf(k, "lighting_quality_score"), FInt(1))

----------------------------------------------------------------------------
(* geocode_areas and build_city_graphs                                     *)

\* the lighting readings of an area that has observations
GeoReadings(k) ==
    IF k[2] = "A" THEN <<1>> ELSE IF k[2] = "B" THEN <<2, 2>> ELSE <<1, 2>>
\* what the service answers for a place it knows
Location == <<0, 0>>

\* unique_areas, core_logic.py:40: the rows in their order
RowOrder(rowset) == SelectSeq(KeyOrder, LAMBDA k : k \in rowset)

GeoInit ==
    /\ pc = "geocode"
    /\ \E present \in SUBSET Keys \ {{}} :
          data_df = [k \in Keys |->
                        IF k \in present THEN GeoReadings(k) ELSE <<>>]
    /\ processed_data = calculate_danger_scores(data_df)
    /\ geo_i = 1
    /\ service_log = [k \in DOMAIN processed_data |-> <<>>]
    /\ coordinates = Empty
    /\ geocoded_data = Empty
    /\ build_i = 0
    /\ city_graphs = Empty
    /\ city_coords = Empty
    /\ city_danger_scores = Empty
    /\ SearchIdle

unique_areas == RowOrder(DOMAIN processed_data)

\* coordinates[(city, area)] = coords
Store(key, coords) ==
    [k \in DOMAIN coordinates \cup {key} |->
        IF k = key THEN coords ELSE coordinates[k]]

\* one pass of the loop body ends: next row
GeoStep(key, response, coords, nextpc) ==
    /\ service_log' = [service_log EXCEPT ![key] = Append(@, response)]
    /\ coordinates' = Store(key, coords)
    /\ geo_i' = geo_i + 1
    /\ pc' = nextpc
    /\ UNCHANGED <<scoreVars, geocoded_data, build_i, city_graphs, city_coords,
                   city_danger_scores, searchVars>>

InLoop == pc = "geocode" /\ geo_i <= Len(unique_areas)

\* core_logic.py:47-51: the service returns a location
GeocodeFound ==
    /\ InLoop
    /\ GeoStep(unique_areas[geo_i], "location", Location, "geocode")

\* core_logic.py:47-49: the service returns None
GeocodeNotFound ==
    /\ InLoop
    /\ GeoStep(unique_areas[geo_i], "none", None, "geocode")

\* core_logic.py:52-54: GeocoderTimedOut or GeocoderUnavailable: retry once
GeocodeTimedOut ==
    /\ InLoop
    /\ service_log' =
          [service_log EXCEPT ![unique_areas[geo_i]] = Append(@, "timeout")]
    /\ pc' = "retry"
    /\ UNCHANGED <<scoreVars, geo_i, coordinates, geocoded_data, build_i,
                   city_graphs, city_coords, city_danger_scores, searchVars>>

\* core_logic.py:63-65: any other exception
GeocodeError ==
    /\ InLoop
    /\ GeoStep(unique_areas[geo_i], "error", None, "geocode")

\* core_logic.py:55-59
RetryFound ==
    /\ pc = "retry"
    /\ GeoStep(unique_areas[geo_i], "location", Location, "geocode")

RetryNotFound ==
    /\ pc = "retry"
    /\ GeoStep(unique_areas[geo_i], "none", None, "geocode")

\* core_logic.py:60-62: any exception on the retry, a timeout included
RetryError ==
    /\ pc = "retry"
    /\ GeoStep(unique_areas[geo_i], "error", None, "geocode")

\* data_df.dropna(subset=['coords'], inplace=True), with the condition inverted
dropna_keepnone(rows, coords) == {k \in rows : coords[k] = None}

dropna(rows, coords) == {k \in rows : coords[k] # None}

\* core_logic.py:67-70: attach the coords column, drop the rows without
GeocodeFinish ==
    /\ pc = "geocode"
    /\ geo_i > Len(unique_areas)
    /\ geocoded_data' =
          [k \in dropna(DOMAIN processed_data, coordinates) |->
              [danger_score |-> processed_data[k].danger_score,
               coords |-> coordinates[k]]]
    /\ pc' = "geocoded"
    /\ UNCHANGED <<scoreVars, geo_i, service_log, coordinates, build_i,
                   city_graphs, city_coords, city_danger_scores, searchVars>>

\* main.py:34-36
GeocodingFailed ==
    /\ pc = "geocoded"
    /\ geocoded_data = Empty
    /\ result' = Ended("geocoding_failed")
    /\ pc' = "done"
    /\ UNCHANGED <<scoreVars, geoVars, graph, coords_map, danger_scores,
                   start_node, end_node, open_set, came_from, g_score, f_score,
                   current, todo, path, walk_node, pops>>

\* processed_data['city'].unique(): the cities in order of first appearance
unique_cities ==
    SelectSeq(Cities, LAMBDA c : \E k \in DOMAIN geocoded_data : k[1] = c)

\* main.py:38, core_logic.py:146-150
BuildStart ==
    /\ pc = "geocoded"
    /\ geocoded_data # Empty
    /\ build_i' = 1
    /\ pc' = "build"
    /\ UNCHANGED <<scoreVars, geo_i, service_log, coordinates, geocoded_data,
                   city_graphs, city_coords, city_danger_scores, searchVars>>

\* city_df['area_name'].tolist()
NodeList(city) ==
    LET rows == RowOrder({k \in DOMAIN geocoded_data : k[1] = city})
    IN [i \in 1..Len(rows) |-> rows[i][2]]

\* the double loop of core_logic.py:159-161 with range(i, len(nodes))
add_edges_selfloop(nodes) ==
    UNION {{{nodes[i], nodes[j]} : j \in i..Len(nodes)} : i \in 1..Len(nodes)}

\* core_logic.py:159-161: G.add_edge(nodes[i], nodes[j]) for i < j; an edge
\* of an undirected simple graph is the set of its end points
add_edges(nodes) ==
    UNION {{{nodes[i], nodes[j]} : j \in (i + 1)..Len(nodes)} :
              i \in 1..Len(nodes)}

\* pd.Series(values, index=city_df.area_name).to_dict()
ToDict(city, column) ==
    [a \in {k[2] : k \in {x \in DOMAIN geocoded_data : x[1] = city}} |->
        IF column = "coords" THEN geocoded_data[<<city, a>>].coords
        ELSE geocoded_data[<<city, a>>].danger_score]

Put(dict, key, value) ==
    [k \in DOMAIN dict \cup {key} |-> IF k = key THEN value ELSE dict[k]]

\* core_logic.py:151-166: one pass of the loop over the cities
BuildCity ==
    /\ pc = "build"
    /\ build_i <= Len(unique_cities)
    /\ LET city == unique_cities[build_i]
           nodes == NodeList(city)
           G == [nodes |-> {nodes[i] : i \in 1..Len(nodes)},
                 edges |-> add_edges(nodes)]
       IN /\ city_graphs' = Put(city_graphs, city, G)
          /\ city_coords' = Put(city_coords, city, ToDict(city, "coords"))
          /\ city_danger_scores' =
                Put(city_danger_scores, city, ToDict(city, "danger_score"))
    /\ build_i' = build_i + 1
    /\ UNCHANGED <<pc, scoreVars, geo_i, service_log, coordinates,
                   geocoded_data, searchVars>>

\* core_logic.py:168-169
BuildReturn ==
    /\ pc = "build"
    /\ build_i > Len(unique_cities)
    /\ pc' = "built"
    /\ UNCHANGED <<scoreVars, geoVars, searchVars>>

GeoNext ==
    \/ GeocodeFound
    \/ GeocodeNotFound
    \/ GeocodeTimedOut
    \/ GeocodeError
    \/ RetryFound
    \/ RetryNotFound
    \/ RetryError
    \/ GeocodeFinish
    \/ GeocodingFailed
    \/ BuildStart
    \/ BuildCity
    \/ BuildReturn

GeoSpec == GeoInit /\ [][GeoNext]_vars

AreasOf(city) == {k[2] : k \in {x \in DOMAIN geocoded_data : x[1] = city}}
IsSelfLoop(e) == Cardinality(e) = 1

\* C6: every built city with N areas has N nodes and N*(N-1)/2 edges, one
\* between every two distinct nodes and no self-loop; its coordinate map and
\* its danger-score map are keyed by exactly the nodes; a city without areas
\* is in none of the three maps.
C6_CompleteGraphs ==
    /\ DOMAIN city_coords = DOMAIN city_graphs
    /\ DOMAIN city_danger_scores = DOMAIN city_graphs
    /\ \A c \in DOMAIN city_graphs :
          LET G == city_graphs[c]
              N == Cardinality(AreasOf(c))
          IN /\ N >= 1
             /\ G.nodes = AreasOf(c)
             /\ Cardinality(G.nodes) = N
             /\ 2 * Cardinality(G.edges) = N * (N - 1)
             /\ \A u, v \in G.nodes : u # v => {u, v} \in G.edges
             /\ \A e \in G.edges : e \subseteq G.nodes /\ ~IsSelfLoop(e)
             /\ DOMAIN city_coords[c] = G.nodes
             /\ DOMAIN city_danger_scores[c] = G.nodes
    /\ pc = "built" =>
          \A c \in CitySet : c \in DOMAIN city_graphs <=> AreasOf(c) # {}

\* both cases at once: a city with three nodes, and a scored city left
\* without any geocoded area
C6_Witness ==
    /\ pc = "built"
    /\ \E c \in DOMAIN city_graphs : Cardinality(city_graphs[c].nodes) = 3
    /\ \E k \in DOMAIN processed_data : k[1] \notin DOMAIN city_graphs

Last(s) == s[Len(s)]
GeocodingOver == pc \in {"geocoded", "build", "built", "done"}
InSomeMap(k) ==
    \/ k[1] \in DOMAIN city_graphs /\ k[2] \in city_graphs[k[1]].nodes
    \/ k[1] \in DOMAIN city_coords /\ k[2] \in DOMAIN city_coords[k[1]]
    \/ k[1] \in DOMAIN city_danger_scores
         /\ k[2] \in DOMAIN city_danger_scores[k[1]]
InAllMaps(k) ==
    /\ k[1] \in DOMAIN city_graphs /\ k[2] \in city_graphs[k[1]].nodes
    /\ k[1] \in DOMAIN city_coords /\ k[2] \in DOMAIN city_coords[k[1]]
    /\ k[1] \in DOMAIN city_danger_scores
         /\ k[2] \in DOMAIN city_danger_scores[k[1]]
FailedLogs == {<<"none">>, <<"error">>, <<"timeout", "none">>,
               <<"timeout", "error">>}

\* C7: an area is a node of its city's graph exactly if its geocoding ended
\* with a location; an area whose lookup returned nothing, raised another
\* error, or failed on the one retry after a timeout is in no graph,
\* coordinate map or danger-score map; every area is geocoded whatever
\* happened to the areas before it.
C7_OnlyGeocodedAreas ==
    /\ \A k \in DOMAIN service_log :
          /\ Len(service_log[k]) <= 2
          /\ Len(service_log[k]) = 2 => service_log[k][1] = "timeout"
          /\ service_log[k] \in FailedLogs => ~InSomeMap(k)
          /\ InSomeMap(k) => Last(service_log[k]) = "location"
    /\ GeocodingOver =>
          \A k \in DOMAIN service_log :
              /\ service_log[k] # <<>>
              /\ Last(service_log[k]) # "timeout"
              /\ k \in DOMAIN coordinates
    /\ pc = "built" =>
          \A k \in DOMAIN service_log :
              IF Last(service_log[k]) = "location"
              THEN InAllMaps(k) ELSE ~InSomeMap(k)

\* an area that failed on its retry is followed by an area that was geocoded
\* and is a node, and an area whose lookup returned nothing was dropped
C7_Witness ==
    /\ pc = "built"
    /\ \E i, j \in 1..Len(unique_areas) :
          /\ i < j
          /\ service_log[unique_areas[i]] = <<"timeout", "error">>
          /\ ~InSomeMap(unique_areas[i])
          /\ InAllMaps(unique_areas[j])
    /\ \E k \in DOMAIN service_log : service_log[k] = <<"none">>

----------------------------------------------------------------------------
(* a_star_search and the query flow of run_application                     *)
(* Danger scores and distances are whole numbers in this stage.            *)

\* node labels in string order, the last key of the heap's tuple comparison
SearchAreas == <<"A", "B", "C", "D", "E">>
Rank(a) == CHOOSE i \in 1..Len(SearchAreas) : SearchAreas[i] = a
SmallAreas == {"A", "B", "C"}

\* latitudes are drawn from 0..MaxLat steps of LatStep/R radians on one
\* meridian
MaxLat == 1
LatStep == 3
CoordValues == {<<lat * LatStep, 0>> : lat \in 0..MaxLat}
DangerValues == {1, 2, 5}
LowDangerValues == {1, 2}

\* float('inf')
Infinity == 1000000

\* core_logic.py:72-85 for two points (lat, lon) given in units of 1/R radian:
\* a = sin(dlat/2)^2 + cos(lat1)*cos(lat2)*sin(dlon/2)^2 and
\* c = 2*atan2(sqrt(a), sqrt(1 - a)); on a common meridian dlon = 0, so
\* c = |dlat| and the distance R*c is |lat2 - lat1| km
haversine_distance(coord1, coord2) == Abs(coord2[1] - coord1[1])

AllEdges(nodes) == {{u, v} : u, v \in nodes} \ {{u} : u \in nodes}
Complete(G) == G.edges = AllEdges(G.nodes)

\* a five-node graph that is not complete: two routes from A to D, then E
DiamondTail ==
    [nodes |-> {"A", "B", "C", "D", "E"},
     edges |-> {{"A", "B"}, {"A", "C"}, {"B", "D"}, {"C", "D"}, {"D", "E"}}]

SearchCase(G, starts, ends, dangers) ==
    /\ graph = G
    /\ coords_map \in [G.nodes -> CoordValues]
    /\ danger_scores \in [G.nodes -> dangers]
    /\ start_node \in starts
    /\ end_node \in ends

SearchInit ==
    /\ pc = "query"
    /\ ScoreIdle
    /\ GeoIdle
    /\ \/ \E nodes \in SUBSET SmallAreas \ {{}} :
            \E edges \in SUBSET AllEdges(nodes) :
               SearchCase([nodes |-> nodes, edges |-> edges],
                          SmallAreas, SmallAreas, DangerValues)
       \/ SearchCase([nodes |-> {"A", "B", "C", "D"},
                      edges |-> AllEdges({"A", "B", "C", "D"})],
                     {"A", "D"}, {"A", "D"}, LowDangerValues)
       \/ SearchCase(DiamondTail, {"A"}, {"E"}, LowDangerValues)
    /\ open_set = {}
    /\ came_from = Empty
    /\ g_score = Empty
    /\ f_score = Empty
    /\ current = None
    /\ todo = {}
    /\ path = <<>>
    /\ walk_node = None
    /\ result = Pending
    /\ pops = <<>>

inputVars == <<graph, coords_map, danger_scores, start_node, end_node>>

ValidQuery == start_node \in graph.nodes /\ end_node \in graph.nodes

\* main.py:57-59
QueryRejected ==
    /\ pc = "query"
    /\ ~ValidQuery
    /\ result' = Ended("invalid_area")
    /\ pc' = "done"
    /\ UNCHANGED <<scoreVars, geoVars, inputVars, open_set, came_from,
                   g_score, f_score, current, todo, path, walk_node, pops>>

\* main.py:57, 62-63: the check passes and a_star_search is called
QueryAccepted ==
    /\ pc = "query"
    /\ ValidQuery
    /\ pc' = "call"
    /\ UNCHANGED <<scoreVars, geoVars, searchVars>>

\* heapq.heappush that leaves the heap as it was
heappush_lost(heap, entry) == heap

heappush(heap, entry) == heap \cup {entry}

\* Python's comparison of (f, g, node) tuples
TupleLess(a, b) ==
    \/ a[1] < b[1]
    \/ a[1] = b[1] /\ a[2] < b[2]
    \/ a[1] = b[1] /\ a[2] = b[2] /\ Rank(a[3]) < Rank(b[3])

\* the entry heapq.heappop returns
HeapMin(heap) == CHOOSE e \in heap : \A x \in heap : x = e \/ TupleLess(e, x)

\* core_logic.py:93-102, entered from the query flow or called directly;
\* coords_map[start_node] or coords_map[end_node] raises KeyError for a
\* node that is not there
AStarEnter ==
    /\ pc \in {"query", "call"}
    /\ IF start_node \in DOMAIN coords_map /\ end_node \in DOMAIN coords_map
       THEN /\ open_set' = heappush({}, <<0, 0, start_node>>)
            /\ came_from' = Empty
            /\ g_score' = [n \in graph.nodes \cup {start_node} |->
                              IF n = start_node THEN 0 ELSE Infinity]
            /\ f_score' = [n \in graph.nodes \cup {start_node} |->
                              IF n = start_node
                              THEN haversine_distance(coords_map[start_node],
                                                      coords_map[end_node])
                              ELSE Infinity]
            /\ pc' = "loop"
            /\ UNCHANGED result
       ELSE /\ result' = Ended("KeyError")
            /\ pc' = "done"
            /\ UNCHANGED <<open_set, came_from, g_score, f_score>>
    /\ UNCHANGED <<scoreVars, geoVars, inputVars, current, todo, path,
                   walk_node, pops>>

\* graph.neighbors(node)
neighbors(node) == {n \in graph.nodes : {n, node} \in graph.edges}

\* core_logic.py:104-113: the end node is popped; the walk back starts
PopEnd ==
    /\ pc = "loop"
    /\ open_set # {}
    /\ HeapMin(open_set)[3] = end_node
    /\ current' = HeapMin(open_set)
    /\ open_set' = open_set \ {HeapMin(open_set)}
    /\ pops' = Append(pops, end_node)
    /\ path' = <<>>
    /\ walk_node' = end_node
    /\ pc' = "walk"
    /\ UNCHANGED <<scoreVars, geoVars, inputVars, came_from, g_score, f_score,
                   todo, result>>

\* core_logic.py:104-107, 115: another node is popped; its neighbours are
\* relaxed next
PopExpand ==
    /\ pc = "loop"
    /\ open_set # {}
    /\ HeapMin(open_set)[3] # end_node
    /\ current' = HeapMin(open_set)
    /\ open_set' = open_set \ {HeapMin(open_set)}
    /\ pops' = Append(pops, HeapMin(open_set)[3])
    /\ todo' = neighbors(HeapMin(open_set)[3])
    /\ pc' = IF todo' = {} THEN "loop" ELSE "relax"
    /\ UNCHANGED <<scoreVars, geoVars, inputVars, came_from, g_score, f_score,
                   path, walk_node, result>>

\* core_logic.py:117 with the popped node's score instead of the neighbour's
tentative_of_current(current_g, neighbor) ==
    current_g + danger_scores[current[3]]

\* core_logic.py:117
tentative_g_score(current_g, neighbor) == current_g + danger_scores[neighbor]

\* core_logic.py:121 left out
keep_g_score(neighbor, tentative) == g_score

\* core_logic.py:121
update_g_score(neighbor, tentative) ==
    [g_score EXCEPT ![neighbor] = tentative]

\* the neighbours are visited in the order of the node list
NextNeighbor == CHOOSE n \in todo : \A m \in todo : Rank(n) <= Rank(m)

\* core_logic.py:119
Improves(neighbor) ==
    tentative_g_score(current[2], neighbor) < g_score[neighbor]

\* core_logic.py:115-128: one pass of the loop over the neighbours, with the
\* body of the if
RelaxImprove ==
    /\ pc = "relax"
    /\ Improves(NextNeighbor)
    /\ LET neighbor == NextNeighbor
           tentative == tentative_g_score(current[2], neighbor)
           heuristic == haversine_distance(coords_map[neighbor],
                                           coords_map[end_node])
       IN /\ came_from' = Put(came_from, neighbor, current[3])
          /\ g_score' = update_g_score(neighbor, tentative)
          /\ f_score' = [f_score EXCEPT ![neighbor] = tentative + heuristic]
          /\ open_set' = heappush(open_set,
                                  <<tentative + heuristic, tentative, neighbor>>)
          /\ todo' = todo \ {neighbor}
    /\ pc' = IF todo' = {} THEN "loop" ELSE "relax"
    /\ UNCHANGED <<scoreVars, geoVars, inputVars, current, path, walk_node,
                   result, pops>>

\* core_logic.py:115-119: one pass with the condition false
RelaxSkip ==
    /\ pc = "relax"
    /\ ~Improves(NextNeighbor)
    /\ todo' = todo \ {NextNeighbor}
    /\ pc' = IF todo' = {} THEN "loop" ELSE "relax"
    /\ UNCHANGED <<scoreVars, geoVars, inputVars, open_set, came_from, g_score,
                   f_score, current, path, walk_node, result, pops>>

\* core_logic.py:104, 130: the heap is empty
ReturnNone ==
    /\ pc = "loop"
    /\ open_set = {}
    /\ result' = ReturnedNone
    /\ pc' = "done"
    /\ UNCHANGED <<scoreVars, geoVars, inputVars, open_set, came_from, g_score,
                   f_score, current, todo, path, walk_node, pops>>

\* core_logic.py:109-111
WalkStep ==
    /\ pc = "walk"
    /\ walk_node \in DOMAIN came_from
    /\ path' = Append(path, walk_node)
    /\ walk_node' = came_from[walk_node]
    /\ UNCHANGED <<pc, scoreVars, geoVars, inputVars, open_set, came_from,
                   g_score, f_score, current, todo, result, pops>>

\* path[::-1] that returns the list as it is
Unreversed(s) == s

\* path[::-1]
Reverse(s) == [i \in 1..Len(s) |-> s[Len(s) + 1 - i]]

\* core_logic.py:112-113 without the append of the start node
ReturnedPath_nostart(p) == Reverse(p)

\* core_logic.py:112-113
ReturnedPath(p) == Reverse(Append(p, start_node))

WalkReturn ==
    /\ pc = "walk"
    /\ walk_node \notin DOMAIN came_from
    /\ result' = ReturnedPathResult(ReturnedPath(path))
    /\ pc' = "done"
    /\ UNCHANGED <<scoreVars, geoVars, inputVars, open_set, came_from, g_score,
                   f_score, current, todo, path, walk_node, pops>>

SearchNext ==
    \/ QueryRejected
    \/ QueryAccepted
    \/ AStarEnter
    \/ PopEnd
    \/ PopExpand
    \/ RelaxImprove
    \/ RelaxSkip
    \/ ReturnNone
    \/ WalkStep
    \/ WalkReturn

SearchSpec == SearchInit /\ [][SearchNext]_vars

\* the calls are synchronous and nothing suspends them: a step that can be
\* taken is taken
FairSearchSpec == SearchSpec /\ WF_vars(SearchNext)

----------------------------------------------------------------------------
(* Properties of the search                                                *)

Searching == pc \in {"loop", "relax", "walk"} \/ (pc = "done" /\ g_score # Empty)
IsPath == pc = "done" /\ result.kind = "path"

\* C2: a query whose start or end is not a node of the graph ends with the
\* explicit rejection, whether it comes through run_application or through
\* a direct call of a_star_search: no exception, no search, no path.
C2_MissingAreaRejected ==
    (pc = "done" /\ ~ValidQuery) =>
        /\ result = Ended("invalid_area")
        /\ pops = <<>>

\* the walks of G from s to e with at most one node more than G has
Walks(G, s, e) ==
    {w \in UNION {[1..k -> G.nodes] : k \in 2..(Cardinality(G.nodes) + 1)} :
        /\ w[1] = s
        /\ w[Len(w)] = e
        /\ \A i \in 1..(Len(w) - 1) : {w[i], w[i + 1]} \in G.edges}

\* cumulative danger of a path: every node after the first
RECURSIVE Cost(_)
Cost(w) == IF Len(w) <= 1 THEN 0 ELSE danger_scores[w[Len(w)]] + Cost(SubSeq(w, 1, Len(w) - 1))

ToyExample ==
    /\ graph = [nodes |-> {"A", "B", "C"}, edges |-> AllEdges({"A", "B", "C"})]
    /\ danger_scores = [n \in {"A", "B", "C"} |->
                           IF n = "A" THEN 1 ELSE IF n = "B" THEN 5 ELSE 2]
    /\ start_node = "A"
    /\ end_node = "C"

\* C3: on a complete graph with scores in [1,10] and start # end, the path
\* returned costs no more than any other walk from start to end; for the
\* scores {A:1, B:5, C:2} the path from A to C is [A, C], of cost 2.
C3_OptimalOnComplete ==
    (/\ pc = "done"
     /\ Complete(graph)
     /\ ValidQuery
     /\ start_node # end_node
     /\ \A n \in graph.nodes : danger_scores[n] \in 1..10) =>
        /\ result.kind = "path"
        /\ result.path \in Walks(graph, start_node, end_node)
        /\ \A w \in Walks(graph, start_node, end_node) :
              Cost(result.path) <= Cost(w)
        /\ ToyExample => result.path = <<"A", "C">> /\ Cost(result.path) = 2

\* a complete graph where a third node was expanded before the end node was
\* popped
C3_Witness ==
    /\ IsPath
    /\ Complete(graph)
    /\ start_node # end_node
    /\ Len(pops) >= 3
    /\ Cardinality(graph.nodes) >= 3

C4_Safety ==
    /\ (pc = "walk" \/ IsPath) =>
          /\ pops[Len(pops)] = end_node
          /\ \A i \in 1..(Len(pops) - 1) : pops[i] # end_node
    /\ (pc = "done" /\ result = ReturnedNone) =>
          /\ open_set = {}
          /\ \A i \in 1..Len(pops) : pops[i] # end_node
    /\ (pc = "loop" /\ open_set = {}) =>
          \A i \in 1..Len(pops) : pops[i] # end_node
    /\ (pc = "done" /\ ValidQuery) => result.kind \in {"path", "None"}
    /\ (pc = "done" /\ ValidQuery /\ Complete(graph)
          /\ Cardinality(graph.nodes) >= 2) => result.kind = "path"

\* C4: a_star_search terminates; it returns a path when the end node is
\* popped for the first time, and None, without an exception, exactly when
\* the heap empties with the end node never popped; on a complete graph of
\* two or more nodes holding start and end it does not return None.
C4_Terminates == [](C4_Safety) /\ <>(pc = "done")

\* the search gave up on a graph where the end node is cut off
C4_Witness ==
    /\ pc = "done"
    /\ result = ReturnedNone
    /\ ValidQuery
    /\ Len(pops) >= 2

NoRepeat(w) == \A i, j \in 1..Len(w) : i # j => w[i] # w[j]

\* C5: a returned path starts at the start node, ends at the end node, joins
\* consecutive nodes by edges and repeats no node; the walk along the
\* predecessors stops at the start node, after fewer steps than the graph
\* has nodes.
C5_WellFormedPath ==
    /\ IsPath =>
          /\ Len(result.path) >= 1
          /\ result.path[1] = start_node
          /\ result.path[Len(result.path)] = end_node
          /\ \A i \in 1..(Len(result.path) - 1) :
                {result.path[i], result.path[i + 1]} \in graph.edges
          /\ NoRepeat(result.path)
    /\ pc = "walk" =>
          /\ Len(path) < Cardinality(graph.nodes)
          /\ NoRepeat(Append(path, walk_node))
          /\ walk_node \notin DOMAIN came_from => walk_node = start_node

\* a path through two intermediate nodes
C5_Witness ==
    /\ IsPath
    /\ Len(result.path) >= 4

\* C9: with start = end in the graph the result is the path [start], of
\* cost 0; no neighbour is relaxed and None is not returned.
C9_TrivialPath ==
    (start_node = end_node /\ start_node \in graph.nodes) =>
        /\ pc # "relax"
        /\ came_from = Empty
        /\ pc = "done" =>
              /\ result = ReturnedPathResult(<<start_node>>)
              /\ Cost(result.path) = 0
              /\ pops = <<start_node>>

\* the single-node city asked for the way from its area to itself
C9_Witness ==
    /\ IsPath
    /\ start_node = end_node
    /\ graph.nodes = {start_node}
    /\ result.path = <<start_node>>

\* danger summed along the came_from chain from n back to the start node
RECURSIVE ChainCost(_, _)
ChainCost(n, fuel) ==
    IF n = start_node THEN 0
    ELSE IF n \notin DOMAIN came_from \/ fuel = 0 THEN Infinity
    ELSE danger_scores[n] + ChainCost(came_from[n], fuel - 1)

Pred(n, cf) == IF n \in DOMAIN cf THEN cf[n] ELSE None

\* a predecessor or a g_score changes only in a relaxation whose tentative
\* score is strictly smaller, and such a change pushes one entry with
\* f = tentative_g + h
C10_Relaxation ==
    (g_score # Empty /\ g_score' # Empty) =>
        \A n \in DOMAIN g_score :
            LET t == current[2] + danger_scores[n]
                h == haversine_distance(coords_map[n], coords_map[end_node])
            IN /\ (g_score'[n] # g_score[n] \/ Pred(n, came_from') # Pred(n, came_from)) =>
                    /\ pc = "relax"
                    /\ n \in neighbors(current[3])
                    /\ t < g_score[n]
                    /\ g_score'[n] = t
                    /\ came_from'[n] = current[3]
                    /\ <<t + h, t, n>> \notin open_set
                    /\ open_set' = open_set \cup {<<t + h, t, n>>}
               /\ (pc = "relax" /\ n = NextNeighbor /\ t < g_score[n]) =>
                    g_score'[n] = t

\* C10 as stated: g_score[start] = 0 and every other finite g_score equals
\* the danger summed along the node's came_from chain.
C10_ChainSum ==
    Searching =>
        /\ g_score[start_node] = 0
        /\ \A n \in DOMAIN g_score \ {start_node} :
              g_score[n] < Infinity =>
                  g_score[n] = ChainCost(n, Cardinality(graph.nodes))

C10_ChainBound ==
    Searching =>
        /\ g_score[start_node] = 0
        /\ \A n \in DOMAIN g_score \ {start_node} :
              g_score[n] < Infinity =>
                  /\ n \in DOMAIN came_from
                  /\ g_score[n] >= ChainCost(n, Cardinality(graph.nodes))
                  /\ ChainCost(n, Cardinality(graph.nodes)) < Infinity
                  /\ Complete(graph) =>
                        g_score[n] = ChainCost(n, Cardinality(graph.nodes))

\* C10, amended: g_score[start] = 0 and every other finite g_score is at
\* least the danger summed along the node's came_from chain, and equal to it
\* on a complete graph; predecessor and g_score change only in a relaxation
\* with a strictly smaller tentative score, which pushes one entry with
\* f = tentative_g + h.
C10_Amended == [](C10_ChainBound) /\ [][C10_Relaxation]_vars

\* a node keeps the g_score it got through a predecessor whose own g_score
\* has been lowered since
C10_Witness ==
    /\ Searching
    /\ \E n \in DOMAIN g_score \ {start_node} :
          /\ g_score[n] < Infinity
          /\ g_score[n] > ChainCost(n, Cardinality(graph.nodes))

====
